---- MODULE Spec2Model ----
(***************************************************************************)
(* Cluster identity and monitor membership of the Ceph operator:           *)
(* pkg/operator/ceph/cluster/mon/config.go.                                *)
(*                                                                         *)
(* Three specifications share the variables:                               *)
(*   Spec       concurrent / repeated CreateOrLoadClusterInfo and          *)
(*              LoadClusterInfo calls against one namespace's secret store *)
(*   SpecLoad   loadMonConfig applied to every bounded persisted           *)
(*              membership config map (tampered ones included)             *)
(*   SpecCycle  single-writer control cycles that load the registry,       *)
(*              allocate maxMonID+1 and persist, with member removals      *)
(***************************************************************************)
EXTENDS Integers, Sequences, FiniteSets, TLC

VARIABLES
    secret,     \* the namespace's secret named AppName: [present, data]
    created,    \* number of successful Secrets.Create calls so far
    call,       \* per caller: the position and locals of its current call
    cm,         \* the config map named EndpointConfigMapName: [exists, data]
    loaded,     \* what the last loadMonConfig of SpecLoad / SpecCycle returned
    allocated,  \* the IDs handed out so far by the control cycles, in order
    everHeld,   \* every numeric ID a member of the cluster has held so far
    resolver,   \* PopulateExternalClusterInfo: its position, polls and result
    extSecrets, \* the external-cluster secrets present in the namespace
    apiUp,      \* whether the API server answers; a Get fails while it does not
    gate,       \* the operator's driver flags and what its callbacks did
    render      \* the inputs and results of the config file generation

\* what the identity and membership specifications leave alone
aux == <<resolver, extSecrets, apiUp, gate, render>>

vars == <<secret, created, call, cm, loaded, allocated, everHeld,
          resolver, extSecrets, apiUp, gate, render>>

(***************************************************************************)
(* Bounds                                                                  *)
(***************************************************************************)
NumProcs == 2      \* concurrent callers
MaxCalls == 2      \* calls each caller makes, one after the other
MaxIdx   == 3      \* highest numeric ID a persisted name or counter carries
MaxMons  == 2      \* tokens in a persisted membership directory
MaxAlloc == 5      \* IDs the control cycles hand out

Procs == 1..NumProcs

(***************************************************************************)
(* Identity: values                                                        *)
(***************************************************************************)
Namespace == "rook-ceph"

\* a nil *ClusterInfo, and the zero value of its fields
NilInfo == [Name |-> "", FSID |-> "", MonitorSecret |-> "", AdminSecret |-> ""]

NoSecret == [present |-> FALSE, data |-> NilInfo]

\* an identity persisted by an earlier run of the operator
ExistingInfo ==
    [Name |-> Namespace, FSID |-> "fsid-0", MonitorSecret |-> "monkey-0",
     AdminSecret |-> "adminkey-0"]

Tag(p, n) == ToString(p) \o "-" \o ToString(n)

\* uuid.NewRandom(): a value no other call draws
NewRandom(p, n) == "fsid-" \o Tag(p, n)

\* the key ceph-authtool generates for `name` in this call
GenKey(name, p, n) == name \o "key-" \o Tag(p, n)

IdleCall ==
    [pc |-> "idle", n |-> 0, ownerRef |-> FALSE, info |-> NilInfo, err |-> "",
     genLog |-> <<>>, creates |-> 0, wrote |-> 0, notFound |-> FALSE,
     createErr |-> "", startedLoad |-> FALSE, maxMonID |-> -1, lost |-> FALSE]

(***************************************************************************)
(* The resolver, the driver gate and the config generation at rest         *)
(***************************************************************************)
\* cephconfig.ExternalCred{}
NoCred == [Username |-> "", Secret |-> ""]

IdleResolver ==
    [pc |-> "idle", polls |-> 0, since |-> 0, gapOk |-> TRUE, lastSleep |-> 0,
     slept |-> FALSE, loadOk |-> FALSE, next |-> 1, reads |-> {}, missing |-> {},
     generated |-> FALSE, info |-> NilInfo, cred |-> NoCred]

\* the result of the latest comparison of the server version with the minimum
NoCheck == [reached |-> FALSE, Major |-> <<>>, Minor |-> <<>>,
            disabled |-> FALSE, started |-> FALSE]

\* an Operator as New builds it, with the csi package's flags, on Kubernetes 1.13
IdleGate ==
    [delayedDaemonsStarted |-> FALSE, EnableRBD |-> TRUE, EnableCephFS |-> TRUE,
     EnableFlexDriver |-> FALSE, operatorNamespace |-> Namespace,
     Major |-> <<1>>, Minor |-> <<1, 3>>,
     agentStarts |-> 0, driverStarts |-> 0, evals |-> 0, seen |-> <<>>,
     ran |-> FALSE,
     gated |-> FALSE, last |-> NoCheck, err |-> ""]

\* a document: section -> key -> value; this one has no section
EmptyDoc == [sec \in {} |-> [k \in {} |-> ""]]

NoInputs ==
    [FSID |-> "", Name |-> "", MonitorSecret |-> "", AdminSecret |-> "",
     Monitors |-> [n \in {} |-> [Name |-> "", Endpoint |-> ""]],
     LogLevel |-> "INFO", network |-> FALSE, override |-> EmptyDoc,
     ConfigDir |-> ""]

NoFile == [path |-> "", doc |-> EmptyDoc]

\* nothing generated yet
IdleRender ==
    [in |-> NoInputs, n |-> 0, order |-> <<>>, default |-> EmptyDoc,
     prev |-> EmptyDoc, main |-> NoFile, admin |-> NoFile, err |-> ""]

AuxIdle ==
    /\ resolver = IdleResolver
    /\ extSecrets = {}
    /\ apiUp = TRUE
    /\ gate = IdleGate
    /\ render = IdleRender

(***************************************************************************)
(* Membership: the persisted config map and its parsers                    *)
(***************************************************************************)
EndpointDataKey == "data"
MaxMonIDKey     == "maxMonId"
MappingKey      == "mapping"

\* numeric IDs a member name can encode, and integers a counter can spell
IdRange  == 0..(MaxIdx + MaxAlloc + 1)
IntRange == (-2)..(MaxIdx + MaxAlloc + 1)

\* the name of the member with numeric ID i
IndexToName(i) == "mon" \o ToString(i)

\* member names that encode no numeric ID
OtherNames == {"mon-x", "mon-y"}

\* the numeric ID a member name encodes; -1 and an error when it encodes none
fullNameToIndex(name) ==
    IF \E i \in IdRange : IndexToName(i) = name
    THEN [id |-> CHOOSE i \in IdRange : IndexToName(i) = name, err |-> FALSE]
    ELSE [id |-> -1, err |-> TRUE]

\* strconv.Atoi: the integer a decimal string spells; 0 and an error otherwise
Atoi(s) ==
    IF \E n \in IntRange : ToString(n) = s
    THEN [val |-> CHOOSE n \in IntRange : ToString(n) = s, err |-> FALSE]
    ELSE [val |-> 0, err |-> TRUE]

\* strconv.Itoa
Itoa(n) == ToString(n)

EmptyMons  == [x \in {} |-> [Name |-> "", Endpoint |-> ""]]
EmptyNodes == [x \in {} |-> ""]

\* &Mapping{Node: map[string]*NodeInfo{}}
EmptyMapping == [isNil |-> FALSE, Node |-> EmptyNodes]

\* the directory string "name=endpoint,name=endpoint" as its tokens, in order;
\* a name given twice keeps its last endpoint
ParseMonEndpoints(info) ==
    LET names == {info[i].name : i \in 1..Len(info)}
        last(nm) == CHOOSE i \in 1..Len(info) :
                       /\ info[i].name = nm
                       /\ \A j \in 1..Len(info) : info[j].name = nm => j <= i
    IN  [nm \in names |-> [Name |-> nm, Endpoint |-> info[last(nm)].endpoint]]

\* json.Unmarshal(blob, &target) on a *Mapping: the empty string and text that
\* is not JSON leave the target alone; JSON whose values have the wrong type
\* stores what it could decode and still reports an error; null sets the
\* pointer to nil
Unmarshal(blob, target) ==
    CASE blob.kind \in {"empty", "syntax"} -> [val |-> target, err |-> TRUE]
      [] blob.kind = "mistyped" ->
             [val |-> [isNil |-> FALSE, Node |-> blob.nodes], err |-> TRUE]
      [] blob.kind = "null" ->
             [val |-> [isNil |-> TRUE, Node |-> EmptyNodes], err |-> FALSE]
      [] OTHER -> [val |-> [isNil |-> FALSE, Node |-> blob.nodes], err |-> FALSE]

EmptyBlob == [kind |-> "empty", nodes |-> EmptyNodes]

\* cm.Data[key] of a Go map[string]string: the zero value when the key is absent
HasKey(data, key) == key \in DOMAIN data

NoConfigMap == [exists |-> FALSE, data |-> [k \in {} |-> ""]]

\* ConfigMaps(namespace).Get(EndpointConfigMapName)
GetConfigMap(store, apiOk) ==
    IF ~apiOk THEN [err |-> "Unavailable", data |-> NoConfigMap.data]
    ELSE IF ~store.exists THEN [err |-> "NotFound", data |-> NoConfigMap.data]
    ELSE [err |-> "", data |-> store.data]

\* a counter that is never read
ParseMaxMonIDIgnored(data) == -1

\* a counter whose parse error keeps the default
ParseMaxMonIDKeepDefault(data) ==
    IF HasKey(data, MaxMonIDKey) /\ ~Atoi(data[MaxMonIDKey]).err
    THEN Atoi(data[MaxMonIDKey]).val
    ELSE -1

\* lines 206-212: the persisted counter; a parse error is logged and the
\* value Atoi returned with it is kept
ParseMaxMonID(data) ==
    IF HasKey(data, MaxMonIDKey) THEN Atoi(data[MaxMonIDKey]).val ELSE -1

\* the loop left out
ConsistentMaxMonIDSkipped(maxMonID, mons) == maxMonID

\* the loop assigning without comparing to the counter
ConsistentMaxMonIDFromNames(maxMonID, mons) ==
    LET ids == {fullNameToIndex(mons[nm].Name).id : nm \in DOMAIN mons}
    IN  IF ids = {} THEN maxMonID
        ELSE CHOOSE i \in ids : \A j \in ids : j <= i

\* lines 214-220: raise the counter to the highest ID a member name encodes
ConsistentMaxMonID(maxMonID, mons) ==
    LET ids == {fullNameToIndex(mons[nm].Name).id : nm \in DOMAIN mons}
        above == {i \in ids : maxMonID < i}
    IN  IF above = {} THEN maxMonID
        ELSE CHOOSE i \in above : \A j \in above : j <= i

\* an Unmarshal error that leaves a nil mapping behind
LoadMappingNilOnError(data) ==
    LET blob == IF HasKey(data, MappingKey) THEN data[MappingKey] ELSE EmptyBlob
        r == Unmarshal(blob, EmptyMapping)
    IN  IF r.err THEN [isNil |-> TRUE, Node |-> EmptyNodes] ELSE r.val

\* lines 222-225: the node mapping; an Unmarshal error is logged, not returned
LoadMapping(data) ==
    LET blob == IF HasKey(data, MappingKey) THEN data[MappingKey] ELSE EmptyBlob
        r == Unmarshal(blob, EmptyMapping)
    IN  r.val

\* a loadMonConfig that returns every error of the Get, NotFound too
loadMonConfigNotFoundFails(got) ==
    IF got.err # ""
    THEN [monitors |-> EmptyMons, isNil |-> TRUE, maxMonID |-> -1,
          mapping |-> EmptyMapping, err |-> got.err]
    ELSE LET data == got.data
             mons == IF HasKey(data, EndpointDataKey)
                     THEN ParseMonEndpoints(data[EndpointDataKey])
                     ELSE EmptyMons
             maxMonID == ConsistentMaxMonID(ParseMaxMonID(data), mons)
         IN  [monitors |-> mons, isNil |-> FALSE, maxMonID |-> maxMonID,
              mapping |-> LoadMapping(data), err |-> ""]

\* loadMonConfig, given what the Get of the config map returned
loadMonConfig(got) ==
    IF got.err = "NotFound"
    THEN [monitors |-> EmptyMons, isNil |-> FALSE, maxMonID |-> -1,
          mapping |-> EmptyMapping, err |-> ""]
    ELSE IF got.err # ""
    THEN [monitors |-> EmptyMons, isNil |-> TRUE, maxMonID |-> -1,
          mapping |-> EmptyMapping, err |-> got.err]
    ELSE LET data == got.data
             mons == IF HasKey(data, EndpointDataKey)
                     THEN ParseMonEndpoints(data[EndpointDataKey])
                     ELSE EmptyMons
             maxMonID == ConsistentMaxMonID(ParseMaxMonID(data), mons)
         IN  [monitors |-> mons, isNil |-> FALSE, maxMonID |-> maxMonID,
              mapping |-> LoadMapping(data), err |-> ""]

\* a load's result, kept
Loaded(res) ==
    [done |-> TRUE, monitors |-> res.monitors, isNil |-> res.isNil,
     maxMonID |-> res.maxMonID, mapping |-> res.mapping, err |-> res.err]

NotLoaded ==
    [done |-> FALSE, monitors |-> EmptyMons, isNil |-> FALSE, maxMonID |-> -1,
     mapping |-> EmptyMapping, err |-> ""]

(***************************************************************************)
(* Identity: the secret store                                              *)
(***************************************************************************)
\* Secrets(namespace).Get(AppName)
GetSecret(store, apiOk) ==
    IF ~apiOk THEN [err |-> "Unavailable", data |-> NilInfo]
    ELSE IF ~store.present THEN [err |-> "NotFound", data |-> NilInfo]
    ELSE [err |-> "", data |-> store.data]

\* a Create that takes "already exists" for success and leaves the store alone
CreateSecretExistsIsSuccess(store, data, apiOk) ==
    IF ~apiOk THEN [store |-> store, err |-> "Unavailable"]
    ELSE IF store.present THEN [store |-> store, err |-> ""]
    ELSE [store |-> [present |-> TRUE, data |-> data], err |-> ""]

\* a Create that replaces what is there
CreateOrReplaceSecret(store, data, apiOk) ==
    IF ~apiOk THEN [store |-> store, err |-> "Unavailable"]
    ELSE [store |-> [present |-> TRUE, data |-> data], err |-> ""]

\* Secrets(namespace).Create(secret): create-if-absent, atomic in the store
CreateSecret(store, data, apiOk) ==
    IF ~apiOk THEN [store |-> store, err |-> "Unavailable"]
    ELSE IF store.present THEN [store |-> store, err |-> "AlreadyExists"]
    ELSE [store |-> [present |-> TRUE, data |-> data], err |-> ""]

(***************************************************************************)
(* Identity: CreateOrLoadClusterInfo, one step per external interaction    *)
(***************************************************************************)
Return(c, e) == [c EXCEPT !.pc = "done", !.err = e]

\* what the call hands back: nil with every error
Returned(c) == IF c.err # "" THEN NilInfo ELSE c.info

\* the Get's outcome with the ownerRef test inverted
AfterGetOwnerTestInverted(c, got) ==
    IF got.err # ""
    THEN IF got.err # "NotFound" THEN Return(c, "GetFailed")
         ELSE IF c.ownerRef
         THEN Return([c EXCEPT !.notFound = TRUE], "NotAuthorized")
         ELSE [c EXCEPT !.notFound = TRUE, !.pc = "newinfo"]
    ELSE [c EXCEPT !.info = got.data, !.pc = "loadmon", !.startedLoad = TRUE]

\* the Get's outcome with every error taken for "not found"
AfterGetAnyErrorCreates(c, got) ==
    IF got.err # ""
    THEN IF ~c.ownerRef
         THEN Return([c EXCEPT !.notFound = (got.err = "NotFound")], "NotAuthorized")
         ELSE [c EXCEPT !.notFound = (got.err = "NotFound"), !.pc = "newinfo"]
    ELSE [c EXCEPT !.info = got.data, !.pc = "loadmon", !.startedLoad = TRUE]

\* the Get's outcome without the ownerRef check
AfterGetNoOwnerCheck(c, got) ==
    IF got.err # ""
    THEN IF got.err # "NotFound" THEN Return(c, "GetFailed")
         ELSE [c EXCEPT !.notFound = TRUE, !.pc = "newinfo"]
    ELSE [c EXCEPT !.info = got.data, !.pc = "loadmon", !.startedLoad = TRUE]

\* the Get's outcome with the creation left out
AfterGetSkipCreate(c, got) ==
    IF got.err # ""
    THEN IF got.err # "NotFound" THEN Return(c, "GetFailed")
         ELSE IF ~c.ownerRef
         THEN Return([c EXCEPT !.notFound = TRUE], "NotAuthorized")
         ELSE [c EXCEPT !.notFound = TRUE, !.pc = "loadmon", !.startedLoad = TRUE]
    ELSE [c EXCEPT !.info = got.data, !.pc = "loadmon", !.startedLoad = TRUE]

\* lines 92-118: what follows the Get of the secret
AfterGet(c, got) ==
    IF got.err # ""
    THEN IF got.err # "NotFound" THEN Return(c, "GetFailed")
         ELSE IF ~c.ownerRef
         THEN Return([c EXCEPT !.notFound = TRUE], "NotAuthorized")
         ELSE [c EXCEPT !.notFound = TRUE, !.pc = "newinfo"]
    ELSE [c EXCEPT !.info = got.data, !.pc = "loadmon", !.startedLoad = TRUE]

\* a genSecret whose error is dropped: the key stays empty
AfterGenSecretErrDropped(c, name, key, ok, next) ==
    LET c1 == [c EXCEPT !.genLog = Append(@, [name |-> name, ok |-> ok])]
        k == IF ok THEN key ELSE ""
    IN  IF name = "mon."
        THEN [c1 EXCEPT !.info.MonitorSecret = k, !.pc = next]
        ELSE [c1 EXCEPT !.info.AdminSecret = k, !.pc = next]

\* lines 270-281: genSecret's outcome in createNamedClusterInfo
AfterGenSecret(c, name, key, ok, next) ==
    LET c1 == [c EXCEPT !.genLog = Append(@, [name |-> name, ok |-> ok])]
    IN  IF ~ok THEN Return(c1, "CreateInfoFailed")
        ELSE IF name = "mon."
        THEN [c1 EXCEPT !.info.MonitorSecret = key, !.pc = next]
        ELSE [c1 EXCEPT !.info.AdminSecret = key, !.pc = next]

\* a Create whose error is dropped: the call goes on with its own identity
AfterCreateErrDropped(c, cerr) ==
    [c EXCEPT !.createErr = cerr,
              !.lost = (@ \/ cerr = "AlreadyExists"),
              !.wrote = IF cerr = "" THEN @ + 1 ELSE @,
              !.pc = "loadmon", !.startedLoad = TRUE]

\* lines 106-109: what follows createClusterAccessSecret
AfterCreate(c, cerr) ==
    IF cerr # ""
    THEN Return([c EXCEPT !.createErr = cerr,
                          !.lost = (@ \/ cerr = "AlreadyExists")],
                IF cerr = "AlreadyExists" THEN "Conflict" ELSE "SaveFailed")
    ELSE [c EXCEPT !.wrote = @ + 1, !.pc = "loadmon", !.startedLoad = TRUE]

\* lines 121-126: what follows loadMonConfig
AfterLoadMonConfig(c, res) ==
    IF res.err # "" THEN Return([c EXCEPT !.maxMonID = res.maxMonID], "MonConfigFailed")
    ELSE Return([c EXCEPT !.maxMonID = res.maxMonID], "")

Begin(p, allowCreate) ==
    /\ call[p].pc \in {"idle", "done"}
    /\ call[p].n < MaxCalls
    /\ call' = [call EXCEPT ![p] =
                   [IdleCall EXCEPT !.pc = "get", !.n = call[p].n + 1,
                                    !.ownerRef = allowCreate, !.lost = call[p].lost]]
    /\ UNCHANGED <<secret, created, cm, loaded, allocated, everHeld, aux>>

\* LoadClusterInfo: CreateOrLoadClusterInfo with a nil ownerRef
LoadClusterInfo(p) == Begin(p, FALSE)

CreateOrLoadClusterInfo(p) == Begin(p, TRUE)

GetSecrets(p) ==
    /\ call[p].pc = "get"
    /\ \E apiOk \in BOOLEAN :
          call' = [call EXCEPT ![p] = AfterGet(call[p], GetSecret(secret, apiOk))]
    /\ UNCHANGED <<secret, created, cm, loaded, allocated, everHeld, aux>>

\* createNamedClusterInfo up to the first key: the FSID and the config dir
createNamedClusterInfo(p) ==
    /\ call[p].pc = "newinfo"
    /\ \E ok \in BOOLEAN :
          call' = [call EXCEPT ![p] =
                     IF ok
                     THEN [call[p] EXCEPT !.info.FSID = NewRandom(p, call[p].n),
                                          !.info.Name = Namespace,
                                          !.pc = "genmon"]
                     ELSE Return(call[p], "CreateInfoFailed")]
    /\ UNCHANGED <<secret, created, cm, loaded, allocated, everHeld, aux>>

genMonSecret(p) ==
    /\ call[p].pc = "genmon"
    /\ \E ok \in BOOLEAN :
          call' = [call EXCEPT ![p] =
                     AfterGenSecret(call[p], "mon.", GenKey("mon.", p, call[p].n),
                                    ok, "genadmin")]
    /\ UNCHANGED <<secret, created, cm, loaded, allocated, everHeld, aux>>

genAdminSecret(p) ==
    /\ call[p].pc = "genadmin"
    /\ \E ok \in BOOLEAN :
          call' = [call EXCEPT ![p] =
                     AfterGenSecret(call[p], "client.admin",
                                    GenKey("client.admin", p, call[p].n), ok, "create")]
    /\ UNCHANGED <<secret, created, cm, loaded, allocated, everHeld, aux>>

createClusterAccessSecret(p) ==
    /\ call[p].pc = "create"
    /\ \E apiOk \in BOOLEAN :
          LET r == CreateSecret(secret, call[p].info, apiOk)
          IN  /\ secret' = r.store
              /\ created' = IF r.err = "" THEN created + 1 ELSE created
              /\ call' = [call EXCEPT ![p] =
                            AfterCreate([call[p] EXCEPT !.creates = @ + 1], r.err)]
    /\ UNCHANGED <<cm, loaded, allocated, everHeld, aux>>

LoadMonConfigStep(p) ==
    /\ call[p].pc = "loadmon"
    /\ \E apiOk \in BOOLEAN :
          call' = [call EXCEPT ![p] =
                     AfterLoadMonConfig(call[p],
                                        loadMonConfig(GetConfigMap(cm, apiOk)))]
    /\ UNCHANGED <<secret, created, cm, loaded, allocated, everHeld, aux>>

\* a config map a running cluster has persisted
SampleConfigMap ==
    [exists |-> TRUE,
     data |-> (EndpointDataKey :> << [name |-> IndexToName(0), endpoint |-> "10.0.0.1:6789"] >>)
              @@ (MaxMonIDKey :> Itoa(0))]

Init ==
    /\ secret \in {NoSecret, [present |-> TRUE, data |-> ExistingInfo]}
    /\ created = 0
    /\ call = [p \in Procs |-> IdleCall]
    /\ cm \in {NoConfigMap, SampleConfigMap}
    /\ loaded = NotLoaded
    /\ allocated = <<>>
    /\ everHeld = {}
    /\ AuxIdle

Next ==
    \E p \in Procs :
        \/ LoadClusterInfo(p)
        \/ CreateOrLoadClusterInfo(p)
        \/ GetSecrets(p)
        \/ createNamedClusterInfo(p)
        \/ genMonSecret(p)
        \/ genAdminSecret(p)
        \/ createClusterAccessSecret(p)
        \/ LoadMonConfigStep(p)

Spec == Init /\ [][Next]_vars

(***************************************************************************)
(* Identity: properties                                                    *)
(***************************************************************************)
Complete(info) ==
    /\ info.Name # ""
    /\ info.FSID # ""
    /\ info.MonitorSecret # ""
    /\ info.AdminSecret # ""

\* the identity a call on the create path generates
Generated(p, n) ==
    [Name |-> Namespace, FSID |-> NewRandom(p, n),
     MonitorSecret |-> GenKey("mon.", p, n),
     AdminSecret |-> GenKey("client.admin", p, n)]

BothKeys == << [name |-> "mon.", ok |-> TRUE], [name |-> "client.admin", ok |-> TRUE] >>

\* C1: under any interleaving of concurrent and repeated creating calls the
\* identity secret is created at most once, and once it is present its name,
\* FSID, mon secret and admin secret are the same in every later state.
C1_CreatedOnceThenImmutable ==
    [][ /\ created' <= 1
        /\ secret.present => (secret' = secret /\ created' = created) ]_vars

C1_Witness ==
    /\ created = 1
    /\ secret.present
    /\ \E p, q \in Procs :
          /\ p # q
          /\ call[p].ownerRef /\ call[p].wrote = 1
          /\ call[q].ownerRef /\ call[q].pc = "done" /\ call[q].creates = 1
          /\ call[q].createErr = "AlreadyExists"

\* C2 as stated: the caller whose Create fails with Conflict re-loads the
\* persisted identity and returns the winner's data without a failure.
C2_LoserReturnsWinner ==
    \A p \in Procs :
        (call[p].createErr = "AlreadyExists" /\ call[p].pc = "done") =>
            /\ call[p].err = ""
            /\ Returned(call[p]) = secret.data

\* C2 amended: the caller whose Create fails with Conflict returns that
\* failure and a nil identity, after one Create and two key generations (no
\* retry), the store holding the winner's identity and not its own; a later
\* call of it that succeeds returns what the store holds.
C2_LoserFailsWithoutRetry ==
    \A p \in Procs :
        /\ call[p].createErr = "AlreadyExists" =>
              /\ call[p].pc = "done"
              /\ call[p].err = "Conflict"
              /\ Returned(call[p]) = NilInfo
              /\ call[p].creates = 1
              /\ call[p].wrote = 0
              /\ call[p].genLog = BothKeys
              /\ secret.present
              /\ secret.data # call[p].info
        /\ (call[p].lost /\ call[p].pc = "done" /\ call[p].err = "") =>
              Returned(call[p]) = secret.data

C2_Witness ==
    \E p, q \in Procs :
        /\ p # q
        /\ call[p].wrote = 1
        /\ call[q].createErr = "AlreadyExists"
        /\ call[q].pc = "done"
        /\ secret.data = call[p].info

\* C3: a call with a nil ownerRef that finds no secret fails with
\* NotAuthorized, generates no key and issues no write to the store.
C3_ReadOnlyCallNeverCreates ==
    \A p \in Procs :
        ~call[p].ownerRef =>
            /\ call[p].genLog = <<>>
            /\ call[p].creates = 0
            /\ call[p].wrote = 0
            /\ call[p].notFound =>
                  /\ call[p].pc = "done"
                  /\ call[p].err = "NotAuthorized"
                  /\ Returned(call[p]) = NilInfo

C3_Witness ==
    \E p \in Procs :
        /\ call[p].pc = "done"
        /\ ~call[p].ownerRef
        /\ call[p].notFound
        /\ ~secret.present
        /\ created = 0

\* C4: on the create path the key generator is invoked for the mon secret and
\* then for the admin secret, and one Create follows that carries the name,
\* the FSID and both secrets together; a key generation that fails ends the
\* call with an error before any Create.
C4_TwoKeysThenOneCreate ==
    \A p \in Procs :
        LET c == call[p] IN
        /\ Len(c.genLog) <= 2
        /\ Len(c.genLog) >= 1 => c.genLog[1].name = "mon."
        /\ Len(c.genLog) = 2 => (c.genLog[2].name = "client.admin" /\ c.genLog[1].ok)
        /\ c.creates <= 1
        /\ c.wrote <= c.creates
        /\ c.creates = 1 =>
              /\ c.genLog = BothKeys
              /\ c.info = Generated(p, c.n)
        /\ c.wrote = 1 => secret = [present |-> TRUE, data |-> Generated(p, c.n)]
        /\ (\E i \in 1..Len(c.genLog) : ~c.genLog[i].ok) =>
              /\ c.pc = "done"
              /\ c.err = "CreateInfoFailed"
              /\ Returned(c) = NilInfo
              /\ c.creates = 0
        /\ (c.pc \in {"loadmon", "done"} /\ c.notFound /\ c.ownerRef
              /\ c.err # "CreateInfoFailed") => c.creates = 1

C4_Witness ==
    \E p, q \in Procs :
        /\ call[p].pc = "done" /\ call[p].err = "" /\ call[p].wrote = 1
        /\ call[p].genLog = BothKeys
        /\ call[q].pc = "done" /\ call[q].err = "CreateInfoFailed"
        /\ Len(call[q].genLog) = 2

\* C5: whenever a call has started loadMonConfig, or has returned a maxMonID
\* without an error, the store holds a complete identity secret.
C5_IdentityBeforeMembership ==
    \A p \in Procs :
        (call[p].startedLoad \/ (call[p].pc = "done" /\ call[p].err = "")) =>
            /\ secret.present
            /\ Complete(secret.data)

C5_Witness ==
    \E p \in Procs :
        /\ call[p].pc = "loadmon"
        /\ call[p].wrote = 1
        /\ secret.data = call[p].info

\* C21: a call that returns without an error returns the name, FSID, mon
\* secret and admin secret the store holds then, whoever created them; no
\* call returns a generated identity the store does not hold
C21_ReturnedIdentityIsPersisted ==
    \A p \in Procs :
        (call[p].pc = "done" /\ call[p].err = "") =>
            /\ secret.present
            /\ Returned(call[p]) = secret.data
            /\ call[p].info = secret.data

\* two creators raced; the winner returned what it wrote and the loser, in
\* its next call, what the winner wrote
C21_Witness ==
    \E p, q \in Procs :
        /\ p # q
        /\ call[p].pc = "done" /\ call[p].err = "" /\ call[p].wrote = 1
        /\ call[q].pc = "done" /\ call[q].err = "" /\ call[q].lost
        /\ call[q].n = 2 /\ call[q].ownerRef
        /\ Returned(call[q]) = Generated(p, call[p].n)

\* the call is on the create path or has been
OnCreatePath(c) ==
    \/ c.pc \in {"newinfo", "genmon", "genadmin", "create"}
    \/ c.genLog # <<>>
    \/ c.creates > 0

\* C23: a call whose Get of the secret fails with an error other than NotFound
\* returns that error, a nil identity, and never enters the create path: it
\* generates no key and creates nothing, with or without an ownerRef
C23_ReadFailureNeverCreates ==
    \A p \in Procs :
        /\ OnCreatePath(call[p]) => call[p].notFound
        /\ call[p].err = "GetFailed" =>
              /\ call[p].pc = "done"
              /\ ~call[p].notFound
              /\ ~OnCreatePath(call[p])
              /\ call[p].wrote = 0
              /\ Returned(call[p]) = NilInfo
        /\ (call[p].pc \in {"loadmon", "done"} /\ call[p].n > 0
              /\ ~call[p].notFound /\ ~call[p].startedLoad) =>
              call[p].err = "GetFailed"

\* a creating call failed on an unanswered Get while the store was empty, and
\* nothing was generated or created
C23_Witness ==
    \E p \in Procs :
        /\ call[p].pc = "done"
        /\ call[p].ownerRef
        /\ call[p].err = "GetFailed"
        /\ ~secret.present
        /\ created = 0

(***************************************************************************)
(* Membership: loadMonConfig on every bounded persisted config map         *)
(***************************************************************************)
EmptyData == [k \in {} |-> ""]

EndpointOf(name) == "10.0.0." \o name \o ":6789"

Names == {IndexToName(i) : i \in 0..MaxIdx} \cup OtherNames

Tokens == {[name |-> nm, endpoint |-> EndpointOf(nm)] : nm \in Names}

Directories == UNION {[1..k -> Tokens] : k \in 0..MaxMons}

\* counters as persisted: integers in decimal, and text that is no integer
Counters == {Itoa(n) : n \in (-2)..(MaxIdx + 1)} \cup {"", "x1"}

SampleNodes == ("node0" :> IndexToName(0))

Blobs ==
    {EmptyBlob,
     [kind |-> "syntax", nodes |-> EmptyNodes],
     [kind |-> "mistyped", nodes |-> SampleNodes],
     [kind |-> "null", nodes |-> EmptyNodes],
     [kind |-> "valid", nodes |-> EmptyNodes],
     [kind |-> "valid", nodes |-> SampleNodes]}

Opt(S) == {[has |-> FALSE]} \cup {[has |-> TRUE, v |-> x] : x \in S}

Entry(key, o) == IF o.has THEN key :> o.v ELSE EmptyData

ConfigMaps ==
    {NoConfigMap} \cup
    {[exists |-> TRUE,
      data |-> Entry(EndpointDataKey, d) @@ Entry(MaxMonIDKey, c) @@ Entry(MappingKey, b)] :
        d \in Opt(Directories), c \in Opt(Counters), b \in Opt(Blobs)}

\* AllocateID: the ID after the highest one loaded
AllocateID(maxMonID) == maxMonID + 1

InitLoad ==
    /\ secret = [present |-> TRUE, data |-> ExistingInfo]
    /\ created = 0
    /\ call = [p \in Procs |-> IdleCall]
    /\ cm \in ConfigMaps
    /\ loaded = NotLoaded
    /\ allocated = <<>>
    /\ everHeld = {}
    /\ AuxIdle

Load ==
    /\ ~loaded.done
    /\ \E apiOk \in BOOLEAN :
          loaded' = Loaded(loadMonConfig(GetConfigMap(cm, apiOk)))
    /\ UNCHANGED <<secret, created, call, cm, allocated, everHeld, aux>>

Allocate ==
    /\ loaded.done
    /\ loaded.err = ""
    /\ allocated = <<>>
    /\ allocated' = <<AllocateID(loaded.maxMonID)>>
    /\ UNCHANGED <<secret, created, call, cm, loaded, everHeld, aux>>

NextLoad == Load \/ Allocate

SpecLoad == InitLoad /\ [][NextLoad]_vars

(***************************************************************************)
(* Membership: properties of one load                                      *)
(***************************************************************************)
SetMax(S) == CHOOSE x \in S : \A y \in S : y <= x

\* the member names a persisted directory lists
DirNames(data) ==
    IF HasKey(data, EndpointDataKey)
    THEN {data[EndpointDataKey][i].name : i \in 1..Len(data[EndpointDataKey])}
    ELSE {}

\* the numeric IDs those names spell
EncodedIDs(data) == {i \in IdRange : IndexToName(i) \in DirNames(data)}

\* the integer the persisted counter spells: one element, or none
CounterSpelled(data) ==
    {n \in IntRange : HasKey(data, MaxMonIDKey) /\ Itoa(n) = data[MaxMonIDKey]}

CounterGarbled(data) == HasKey(data, MaxMonIDKey) /\ CounterSpelled(data) = {}

\* the config map was read and loadMonConfig went through it
LoadedFromMap == loaded.done /\ cm.exists /\ loaded.err # "Unavailable"

AllNamesEncode(data) ==
    /\ DirNames(data) # {}
    /\ \A nm \in DirNames(data) : \E i \in IdRange : IndexToName(i) = nm

\* C8 as stated: for members whose names all encode an ID, the ID allocated
\* after a load is the highest encoded ID plus one.
C8_NextIsHighestNamePlusOne ==
    (LoadedFromMap /\ allocated # <<>> /\ AllNamesEncode(cm.data)) =>
        allocated[1] = SetMax(EncodedIDs(cm.data)) + 1

\* C8 amended: for members whose names all encode an ID, the ID allocated after
\* a load is one more than the maximum of the highest encoded ID and the
\* persisted counter; it is the highest encoded ID plus one when the counter
\* is absent, unparseable or not above that ID.
C8_NextIsMaxOfNamesAndCounterPlusOne ==
    (LoadedFromMap /\ allocated # <<>> /\ AllNamesEncode(cm.data)) =>
        /\ allocated[1] =
              SetMax(EncodedIDs(cm.data) \cup CounterSpelled(cm.data)) + 1
        /\ (\A n \in CounterSpelled(cm.data) : n <= SetMax(EncodedIDs(cm.data))) =>
              allocated[1] = SetMax(EncodedIDs(cm.data)) + 1

C8_Witness ==
    /\ LoadedFromMap
    /\ AllNamesEncode(cm.data)
    /\ EncodedIDs(cm.data) = {0, 1}
    /\ CounterSpelled(cm.data) = {MaxIdx}
    /\ allocated = <<MaxIdx + 1>>

\* C9 as stated: with a counter that is no decimal integer and no member name
\* that yields an ID, the load fails with an error.
C9_GarbledCounterFailsLoad ==
    (LoadedFromMap /\ CounterGarbled(cm.data) /\ EncodedIDs(cm.data) = {}) =>
        loaded.err # ""

\* C9 amended: with a counter that is no decimal integer and no member name
\* that yields an ID, the load does not fail: it returns the members, no error
\* and maxMonID 0, the value Atoi leaves with its error.
C9_GarbledCounterLoadsAsZero ==
    (LoadedFromMap /\ CounterGarbled(cm.data) /\ EncodedIDs(cm.data) = {}) =>
        /\ loaded.err = ""
        /\ ~loaded.isNil
        /\ DOMAIN loaded.monitors = DirNames(cm.data)
        /\ loaded.maxMonID = 0
        /\ allocated # <<>> => allocated = <<1>>

C9_Witness ==
    /\ LoadedFromMap
    /\ CounterGarbled(cm.data)
    /\ DirNames(cm.data) = OtherNames
    /\ allocated = <<1>>

MappingUnreadable(data) ==
    \/ ~HasKey(data, MappingKey)
    \/ data[MappingKey].kind \in {"empty", "syntax"}

WithMapping(store, blob) ==
    [store EXCEPT !.data =
        (MappingKey :> blob) @@ [k \in DOMAIN store.data \ {MappingKey} |-> store.data[k]]]

\* C10: with a node mapping that is missing or is not JSON the load succeeds,
\* returns an empty mapping and no error, and returns the members and the
\* maxMonID it returns for the same config map with a well-formed mapping.
C10_UnreadableMappingIsEmpty ==
    (LoadedFromMap /\ MappingUnreadable(cm.data)) =>
        /\ loaded.err = ""
        /\ ~loaded.isNil
        /\ loaded.mapping = EmptyMapping
        /\ \A b \in {x \in Blobs : x.kind = "valid"} :
              LET w == loadMonConfig(GetConfigMap(WithMapping(cm, b), TRUE))
              IN  /\ loaded.monitors = w.monitors
                  /\ loaded.maxMonID = w.maxMonID

C10_Witness ==
    /\ LoadedFromMap
    /\ HasKey(cm.data, MappingKey)
    /\ cm.data[MappingKey].kind = "syntax"
    /\ Cardinality(DOMAIN loaded.monitors) = MaxMons
    /\ loaded.maxMonID = MaxIdx
    /\ loaded.mapping = EmptyMapping

\* C24: with no config map the load succeeds with no member, maxMonID -1 and
\* an empty node mapping, and the first ID allocated is 0; a Get that fails
\* otherwise makes the load fail, with nil members, and nothing is allocated
C24_AbsentConfigMapLoadsEmpty ==
    /\ (loaded.done /\ ~cm.exists /\ loaded.err # "Unavailable") =>
          /\ loaded.err = ""
          /\ loaded.monitors = EmptyMons
          /\ ~loaded.isNil
          /\ loaded.maxMonID = -1
          /\ loaded.mapping = EmptyMapping
          /\ allocated \in {<<>>, <<0>>}
    /\ (loaded.done /\ loaded.err # "") =>
          /\ loaded.err = "Unavailable"
          /\ loaded.isNil
          /\ loaded.maxMonID = -1
          /\ allocated = <<>>

\* a new cluster's first ID
C24_Witness ==
    /\ ~cm.exists
    /\ loaded.done
    /\ loaded.err = ""
    /\ allocated = <<0>>

(***************************************************************************)
(* Membership: single-writer control cycles                                *)
(***************************************************************************)
RECURSIVE FlattenMonEndpoints(_)
\* the directory written back: one token per member
FlattenMonEndpoints(mons) ==
    IF DOMAIN mons = {} THEN <<>>
    ELSE LET nm == CHOOSE x \in DOMAIN mons : TRUE
         IN  << [name |-> nm, endpoint |-> mons[nm].Endpoint] >>
             \o FlattenMonEndpoints([x \in DOMAIN mons \ {nm} |-> mons[x]])

\* the config map a cycle persists: the members, the counter and the mapping
saveMonConfig(mons, maxMonID, mapping) ==
    [exists |-> TRUE,
     data |-> (EndpointDataKey :> FlattenMonEndpoints(mons))
              @@ (MaxMonIDKey :> Itoa(maxMonID))
              @@ (MappingKey :> [kind |-> "valid", nodes |-> mapping.Node])]

InitCycle ==
    /\ secret = [present |-> TRUE, data |-> ExistingInfo]
    /\ created = 0
    /\ call = [p \in Procs |-> IdleCall]
    /\ cm = NoConfigMap
    /\ loaded = NotLoaded
    /\ allocated = <<>>
    /\ everHeld = {}
    /\ AuxIdle

\* one cycle that adds a member: load, allocate maxMonID+1, persist the member
\* together with the counter; the cycle may fail before it persists
AddMon ==
    /\ Len(allocated) < MaxAlloc
    /\ \E apiOk \in BOOLEAN, saved \in BOOLEAN :
          LET res  == loadMonConfig(GetConfigMap(cm, apiOk))
              id   == AllocateID(res.maxMonID)
              nm   == IndexToName(id)
              mons == (nm :> [Name |-> nm, Endpoint |-> EndpointOf(nm)]) @@ res.monitors
          IN  /\ loaded' = Loaded(res)
              /\ IF res.err # ""
                 THEN UNCHANGED <<cm, allocated, everHeld>>
                 ELSE /\ allocated' = Append(allocated, id)
                      /\ IF saved
                         THEN /\ cm' = saveMonConfig(mons, id, res.mapping)
                              /\ everHeld' = everHeld \cup {id}
                         ELSE UNCHANGED <<cm, everHeld>>
    /\ UNCHANGED <<secret, created, call, aux>>

\* one cycle that removes a member and persists the rest with the counter
RemoveMon ==
    /\ LET res == loadMonConfig(GetConfigMap(cm, TRUE))
       IN  /\ res.err = ""
           /\ \E nm \in DOMAIN res.monitors :
                 cm' = saveMonConfig([x \in DOMAIN res.monitors \ {nm} |-> res.monitors[x]],
                                     res.maxMonID, res.mapping)
           /\ loaded' = Loaded(res)
    /\ UNCHANGED <<secret, created, call, allocated, everHeld, aux>>

NextCycle == AddMon \/ RemoveMon

SpecCycle == InitCycle /\ [][NextCycle]_vars

\* C7: over any sequence of control cycles and member removals, an ID handed
\* out by AllocateID is held by no current member and was held by no earlier
\* member of the cluster.
C7_AllocatedIDsAreNeverReused ==
    [][ Len(allocated') > Len(allocated) =>
            LET id == allocated'[Len(allocated')]
            IN  /\ id \notin everHeld
                /\ id \notin EncodedIDs(cm.data) ]_vars

C7_Witness ==
    /\ allocated = <<0, 1, 2>>
    /\ everHeld = {0, 1, 2}
    /\ EncodedIDs(cm.data) = {0, 2}
    /\ CounterSpelled(cm.data) = {2}

(***************************************************************************)
(* External clusters: PopulateExternalClusterInfo                          *)
(***************************************************************************)
MaxPolls == 2

\* line 57, in seconds
externalConnectionRetry == 60

\* the value the admin key holds when no admin key was given
AdminSecretName == "admin-secret"

\* client.AdminUsername
AdminUsername == "client.admin"

OperatorCreds              == "rook-ceph-operator-creds"
CsiRBDNodeSecret           == "rook-csi-rbd-node"
CsiRBDProvisionerSecret    == "rook-csi-rbd-provisioner"
CsiCephFSNodeSecret        == "rook-csi-cephfs-node"
CsiCephFSProvisionerSecret == "rook-csi-cephfs-provisioner"

\* the secrets ValidateAndLoadExternalClusterSecrets gets, in its order
ExternalNames ==
    <<OperatorCreds, CsiRBDNodeSecret, CsiRBDProvisionerSecret,
      CsiCephFSNodeSecret, CsiCephFSProvisionerSecret>>

ServiceNames == {ExternalNames[i] : i \in 2..5}

\* the identity an external cluster's import writes when it hands over no admin key
ExternalInfo ==
    [Name |-> Namespace, FSID |-> "fsid-ext", MonitorSecret |-> "monkey-ext",
     AdminSecret |-> AdminSecretName]

\* the userID and userKey of the imported health checker
CheckerCred == [Username |-> "client.healthchecker", Secret |-> "checkerkey"]

\* lines 361-363
IsExternalHealthCheckUserAdmin(adminSecret) == adminSecret # AdminSecretName

\* Secrets(namespace).Get(name): with an error the client hands back an empty secret
GetExternal(store, name, apiOk) ==
    IF ~apiOk THEN [err |-> "Unavailable", data |-> NoCred]
    ELSE IF name \notin store THEN [err |-> "NotFound", data |-> NoCred]
    ELSE [err |-> "", data |-> IF name = OperatorCreds THEN CheckerCred ELSE NoCred]

\* a loop that stops after its second failed poll
ToSleepUntilSecondPoll(r) ==
    IF r.polls >= 2 THEN [r EXCEPT !.pc = "done"] ELSE [r EXCEPT !.pc = "sleep"]

\* lines 333-335 and 347-350: warn, sleep, continue
ToSleep(r) == [r EXCEPT !.pc = "sleep"]

Saturate(n) == IF n < MaxPolls THEN n + 1 ELSE MaxPolls

\* lines 329-331: a poll begins
BeginPoll(r) ==
    [r EXCEPT !.polls = Saturate(@),
              !.gapOk = (@ /\ (r.polls = 0 \/ r.since >= externalConnectionRetry)),
              !.since = 0, !.slept = FALSE, !.loadOk = FALSE, !.next = 1,
              !.reads = {}, !.missing = {}, !.info = NilInfo, !.cred = NoCred]

\* the load's outcome without the admin case
AfterLoadNoAdminCase(r, info) ==
    [r EXCEPT !.loadOk = TRUE, !.info = info, !.pc = "validate"]

\* lines 332-344: what follows LoadClusterInfo when it returned no error
AfterLoad(r, info) ==
    IF IsExternalHealthCheckUserAdmin(info.AdminSecret)
    THEN [r EXCEPT !.loadOk = TRUE, !.info = info, !.pc = "done",
                   !.cred = [Username |-> AdminUsername, Secret |-> info.AdminSecret]]
    ELSE [r EXCEPT !.loadOk = TRUE, !.info = info, !.pc = "validate"]

\* lines 133-171 and 345-354: what follows one Get of ValidateAndLoadExternalClusterSecrets
AfterExternalGet(r, name, got) ==
    LET r1 == [r EXCEPT !.reads = @ \cup {name},
                        !.missing = IF got.err = "NotFound" THEN @ \cup {name} ELSE @,
                        !.cred = IF name = OperatorCreds THEN got.data ELSE @]
    IN  IF got.err # "" /\ got.err # "NotFound"
        THEN ToSleep([r1 EXCEPT !.cred = NoCred])
        ELSE IF r.next = Len(ExternalNames)
        THEN [r1 EXCEPT !.pc = "done"]
        ELSE [r1 EXCEPT !.next = @ + 1]

\* PopulateExternalClusterInfo is called
PopulateExternalClusterInfo ==
    /\ resolver.pc = "idle"
    /\ resolver' = [resolver EXCEPT !.pc = "load"]
    /\ UNCHANGED <<secret, created, call, cm, loaded, allocated, everHeld,
                   extSecrets, apiUp, gate, render>>

\* line 331, first half: LoadClusterInfo is CreateOrLoadClusterInfo with a nil
\* ownerRef, here up to loadMonConfig: the Get of the identity and, were the
\* create path entered (lines 101-109), the keys and the Create
PollGetSecrets ==
    /\ resolver.pc = "load"
    /\ LET r == BeginPoll(resolver)
           c == AfterGet([IdleCall EXCEPT !.pc = "get"], GetSecret(secret, apiUp))
           w == CreateSecret(secret, Generated(0, r.polls), apiUp)
       IN  IF c.pc = "newinfo"
           THEN /\ secret' = w.store
                /\ created' = IF w.err = "" THEN created + 1 ELSE created
                /\ resolver' = IF w.err # "" THEN ToSleep([r EXCEPT !.generated = TRUE])
                                ELSE [r EXCEPT !.generated = TRUE, !.pc = "loadmon",
                                               !.info = Generated(0, r.polls)]
           ELSE /\ resolver' = IF c.pc = "done" THEN ToSleep(r)
                                ELSE [r EXCEPT !.info = c.info, !.pc = "loadmon"]
                /\ UNCHANGED <<secret, created>>
    /\ UNCHANGED <<call, cm, loaded, allocated, everHeld,
                   extSecrets, apiUp, gate, render>>

\* line 331, second half, to line 344: loadMonConfig, then the admin case
PollLoadMonConfig ==
    /\ resolver.pc = "loadmon"
    /\ LET c == AfterLoadMonConfig([IdleCall EXCEPT !.info = resolver.info],
                                   loadMonConfig(GetConfigMap(cm, apiUp)))
       IN  resolver' = IF c.err # "" THEN ToSleep([resolver EXCEPT !.info = NilInfo])
                       ELSE AfterLoad(resolver, Returned(c))
    /\ UNCHANGED <<secret, created, call, cm, loaded, allocated, everHeld,
                   extSecrets, apiUp, gate, render>>

\* one Get of ValidateAndLoadExternalClusterSecrets
PollValidate ==
    /\ resolver.pc = "validate"
    /\ LET name == ExternalNames[resolver.next]
       IN  resolver' = AfterExternalGet(resolver, name,
                                        GetExternal(extSecrets, name, apiUp))
    /\ UNCHANGED <<secret, created, call, cm, loaded, allocated, everHeld,
                   extSecrets, apiUp, gate, render>>

\* lines 334 and 349: time.Sleep(externalConnectionRetry), then the next poll
Sleep ==
    /\ resolver.pc = "sleep"
    /\ resolver' = [resolver EXCEPT !.pc = "load", !.slept = TRUE,
                                    !.lastSleep = externalConnectionRetry,
                                    !.since = @ + externalConnectionRetry]
    /\ UNCHANGED <<secret, created, call, cm, loaded, allocated, everHeld,
                   extSecrets, apiUp, gate, render>>

\* the import of the external cluster writes the identity
ImportIdentity ==
    /\ ~secret.present
    /\ \E info \in {ExistingInfo, ExternalInfo} :
          secret' = [present |-> TRUE, data |-> info]
    /\ UNCHANGED <<created, call, cm, loaded, allocated, everHeld,
                   resolver, extSecrets, apiUp, gate, render>>

\* the import writes one of the external secrets
ImportSecret ==
    /\ \E i \in DOMAIN ExternalNames :
          /\ ExternalNames[i] \notin extSecrets
          /\ extSecrets' = extSecrets \cup {ExternalNames[i]}
    /\ UNCHANGED <<secret, created, call, cm, loaded, allocated, everHeld,
                   resolver, apiUp, gate, render>>

\* the API server stops answering
ApiFails ==
    /\ apiUp
    /\ apiUp' = FALSE
    /\ UNCHANGED <<secret, created, call, cm, loaded, allocated, everHeld,
                   resolver, extSecrets, gate, render>>

\* the API server answers again
ApiRecovers ==
    /\ ~apiUp
    /\ apiUp' = TRUE
    /\ UNCHANGED <<secret, created, call, cm, loaded, allocated, everHeld,
                   resolver, extSecrets, gate, render>>

InitResolve ==
    /\ secret = NoSecret
    /\ created = 0
    /\ call = [p \in Procs |-> IdleCall]
    /\ cm \in {NoConfigMap, SampleConfigMap}
    /\ loaded = NotLoaded
    /\ allocated = <<>>
    /\ everHeld = {}
    /\ resolver = IdleResolver
    /\ extSecrets = {}
    /\ apiUp \in BOOLEAN
    /\ gate = IdleGate
    /\ render = IdleRender

\* the steps of the resolver's own loop
ResolverStep ==
    \/ PollGetSecrets
    \/ PollLoadMonConfig
    \/ PollValidate
    \/ Sleep

NextResolve ==
    \/ PopulateExternalClusterInfo
    \/ ResolverStep
    \/ ImportIdentity
    \/ ImportSecret
    \/ ApiFails
    \/ ApiRecovers

\* the goroutine running the loop is scheduled; the imports and the API server
\* owe nothing
SpecResolve == InitResolve /\ [][NextResolve]_vars /\ WF_vars(ResolverStep)

(***************************************************************************)
(* External clusters: properties                                           *)
(***************************************************************************)
\* C11: the resolver returns only when the stored admin key is a real one or
\* all four service secrets are present
C11_ReturnsOnlyWithAdminOrAllFour ==
    resolver.pc = "done" =>
        \/ IsExternalHealthCheckUserAdmin(resolver.info.AdminSecret)
        \/ ServiceNames \subseteq extSecrets

\* C12: a poll that loads the identity and finds a real admin key returns in
\* that poll: no sleep, no read of an external secret, and the credential is
\* the admin user with the stored admin key
C12_AdminKeyReturnsInSamePoll ==
    (resolver.loadOk /\ IsExternalHealthCheckUserAdmin(resolver.info.AdminSecret)) =>
        /\ resolver.pc = "done"
        /\ ~resolver.slept
        /\ resolver.reads = {}
        /\ resolver.cred = [Username |-> AdminUsername,
                            Secret |-> secret.data.AdminSecret]

\* the admin key is found in a later poll, with service secrets already there
C12_Witness ==
    /\ resolver.pc = "done"
    /\ resolver.polls = 2
    /\ resolver.cred = [Username |-> AdminUsername, Secret |-> "adminkey-0"]
    /\ resolver.reads = {}
    /\ CsiRBDNodeSecret \in extSecrets

\* C13: a lookup that finds its record absent has the outcome of one that
\* fails: no return from that poll; every sleep lasts the one fixed interval and
\* consecutive polls begin at least that interval apart
C13_AbsentWaitsLikeTransient ==
    /\ resolver.pc = "done" => resolver.missing = {}
    /\ resolver.lastSleep \in {0, externalConnectionRetry}
    /\ resolver.gapOk

\* the resolver has given up: it returned from a poll whose load had failed
GaveUp == resolver.pc = "done" /\ ~resolver.loadOk

\* the identity loads and a return condition holds, with the API answering
Resolvable ==
    /\ apiUp
    /\ secret.present
    /\ \/ IsExternalHealthCheckUserAdmin(secret.data.AdminSecret)
       \/ ServiceNames \subseteq extSecrets

\* C14: the resolver leaves its loop only from a poll that loaded the
\* identity, however many polls failed before; and once called, if the identity
\* stays loadable with a return condition holding, it eventually returns
C14_ReturnsOnlyOnSuccessAndEventually ==
    /\ [](~GaveUp)
    /\ [](resolver.pc = "done" => [](resolver.pc = "done"))
    /\ ((resolver.pc # "idle" /\ []Resolvable) ~> (resolver.pc = "done"))

\* a return after more polls than the counter tells apart, the last one
\* through all five Gets
C14_Witness ==
    /\ resolver.pc = "done"
    /\ resolver.polls = MaxPolls
    /\ resolver.loadOk
    /\ resolver.reads = {ExternalNames[i] : i \in 1..5}
    /\ resolver.missing = {}
    /\ resolver.cred = CheckerCred

\* no call on an existing identity, with or without an ownerRef, enters the
\* create path, whatever the Get answers
ExistingIdentityNeverRecreated ==
    secret.present =>
        \A owner \in BOOLEAN, apiOk \in BOOLEAN :
            ~OnCreatePath(AfterGet([IdleCall EXCEPT !.pc = "get", !.ownerRef = owner],
                                   GetSecret(secret, apiOk)))

\* C22: a step of the resolver (its LoadClusterInfo, with the membership load,
\* and its ValidateAndLoadExternalClusterSecrets) leaves the identity secret,
\* the config map and the external secrets as they are and generates no key,
\* however many polls it makes; and no call on an existing identity enters the
\* create path
C22_OnlyCreatePathWrites ==
    /\ []ExistingIdentityNeverRecreated
    /\ [][resolver' # resolver =>
             /\ secret' = secret
             /\ created' = created
             /\ cm' = cm
             /\ extSecrets' = extSecrets
             /\ ~resolver'.generated]_vars

\* the resolver has polled as often as the counter tells apart, through the
\* five Gets of the validation at least once, and there is still no identity
C22_Witness ==
    /\ resolver.polls = MaxPolls
    /\ resolver.pc = "sleep"
    /\ ~secret.present
    /\ created = 0
    /\ extSecrets # {}

(***************************************************************************)
(* Optional drivers: startDrivers and updateDrivers                        *)
(***************************************************************************)
MaxStarts == 2

\* version.Info's Major and Minor are strings of digits; a string is the
\* sequence of its digits
Majors == {<<0>>, <<1>>, <<2>>}
Minors == {<<9>>, <<1, 2>>, <<1, 3>>}

\* csi.KubeMinMajor and csi.KubeMinMinor: "K8s 1.13 or newer"
KubeMinMajor == <<1>>
KubeMinMinor == <<1, 3>>

\* the number a string of digits spells
RECURSIVE Num(_)
Num(s) == IF s = <<>> THEN 0 ELSE 10 * Num(SubSeq(s, 1, Len(s) - 1)) + s[Len(s)]

\* Go's < on strings: byte by byte, a proper prefix first
StrLess(a, b) ==
    \/ Len(a) < Len(b) /\ SubSeq(b, 1, Len(a)) = a
    \/ \E i \in 1..Len(a) :
          /\ i <= Len(b)
          /\ SubSeq(a, 1, i - 1) = SubSeq(b, 1, i - 1)
          /\ a[i] < b[i]

\* the call that fails in one updateDrivers, if any: it returns at the first
Faults == {"none", "agent", "version", "setParams", "configMap", "validate"}

Count(n) == IF n < MaxStarts THEN n + 1 ELSE MaxStarts

Fail(g, e) == [g EXCEPT !.err = e]

\* csi.SetParams: configures the CSI parameters; the driver flags are not its
NoteParams(g) == g

\* csi.CSIEnabled
CSIEnabled(g) == g.EnableRBD \/ g.EnableCephFS

\* the comparison deciding by the version alone, either way
CheckVersionEitherWay(g) ==
    LET old == \/ StrLess(g.Major, KubeMinMajor)
               \/ g.Major = KubeMinMajor /\ StrLess(g.Minor, KubeMinMinor)
    IN  [g EXCEPT !.EnableRBD = ~old, !.EnableCephFS = ~old, !.gated = (@ \/ old),
                  !.last = [reached |-> TRUE, Major |-> g.Major, Minor |-> g.Minor,
                            disabled |-> old, started |-> FALSE]]

\* lines 428-434: the server version against the minimum
CheckVersion(g) ==
    IF \/ StrLess(g.Major, KubeMinMajor)
       \/ g.Major = KubeMinMajor /\ StrLess(g.Minor, KubeMinMinor)
    THEN [g EXCEPT !.EnableRBD = FALSE, !.EnableCephFS = FALSE, !.gated = TRUE,
                   !.last = [reached |-> TRUE, Major |-> g.Major, Minor |-> g.Minor,
                             disabled |-> TRUE, started |-> FALSE]]
    ELSE [g EXCEPT !.last = [reached |-> TRUE, Major |-> g.Major, Minor |-> g.Minor,
                             disabled |-> FALSE, started |-> FALSE]]

\* lines 436-457: the owner reference, the config map, the parameters, the drivers
StartCsi(g, f) ==
    IF f = "configMap" THEN Fail(g, "ConfigMapFailed")
    ELSE IF f = "validate" THEN Fail(g, "InvalidParams")
    ELSE [g EXCEPT !.driverStarts = Count(@), !.last.started = TRUE, !.err = ""]

\* an updateDrivers that compares the version whatever the flags say
updateDriversAlwaysChecking(g, f) ==
    IF ~g.delayedDaemonsStarted THEN Fail(g, "")
    ELSE IF g.operatorNamespace = "" THEN Fail(g, "NoNamespace")
    ELSE IF g.EnableFlexDriver /\ f = "agent" THEN Fail(g, "AgentFailed")
    ELSE LET g1 == [g EXCEPT !.agentStarts = IF g.EnableFlexDriver THEN Count(@) ELSE @,
                             !.evals = Count(@), !.seen = <<g.Major, g.Minor>>]
         IN  IF f = "version" THEN Fail(g1, "VersionFailed")
             ELSE IF f = "setParams" THEN Fail(g1, "ParamsFailed")
             ELSE LET g2 == CheckVersionEitherWay(NoteParams(g1))
                  IN  IF g2.last.disabled THEN Fail(g2, "")
                      ELSE StartCsi(g2, f)

\* lines 395-458
updateDrivers(g, f) ==
    IF ~g.delayedDaemonsStarted THEN Fail(g, "")
    ELSE IF g.operatorNamespace = "" THEN Fail(g, "NoNamespace")
    ELSE IF g.EnableFlexDriver /\ f = "agent" THEN Fail(g, "AgentFailed")
    ELSE LET g1 == [g EXCEPT !.agentStarts = IF g.EnableFlexDriver THEN Count(@) ELSE @,
                             !.evals = Count(@), !.seen = <<g.Major, g.Minor>>]
         IN  IF f = "version" THEN Fail(g1, "VersionFailed")
             ELSE IF f = "setParams" THEN Fail(g1, "ParamsFailed")
             ELSE IF ~CSIEnabled(NoteParams(g1)) THEN Fail(NoteParams(g1), "")
             ELSE LET g2 == CheckVersion(NoteParams(g1))
                  IN  IF g2.last.disabled THEN Fail(g2, "")
                      ELSE StartCsi(g2, f)

\* a startDrivers that leaves the flag set when updateDrivers failed
startDriversKeepsFlag(g, f) ==
    IF g.delayedDaemonsStarted THEN [g EXCEPT !.ran = FALSE, !.err = ""]
    ELSE updateDrivers([g EXCEPT !.delayedDaemonsStarted = TRUE, !.ran = TRUE], f)

\* lines 381-393
startDriversOf(g, f) ==
    IF g.delayedDaemonsStarted THEN [g EXCEPT !.ran = FALSE, !.err = ""]
    ELSE LET g1 == updateDrivers([g EXCEPT !.delayedDaemonsStarted = TRUE, !.ran = TRUE], f)
         IN  IF g1.err # "" THEN [g1 EXCEPT !.delayedDaemonsStarted = FALSE]
             ELSE g1

startDrivers ==
    /\ \E f \in Faults : gate' = startDriversOf(gate, f)
    /\ UNCHANGED <<secret, created, call, cm, loaded, allocated, everHeld,
                   resolver, extSecrets, apiUp, render>>

\* updateDrivers called on its own, as the operator's settings watcher does
UpdateDrivers ==
    /\ \E f \in Faults : gate' = updateDrivers([gate EXCEPT !.ran = FALSE], f)
    /\ UNCHANGED <<secret, created, call, cm, loaded, allocated, everHeld,
                   resolver, extSecrets, apiUp, render>>

\* the cluster is upgraded: Discovery().ServerVersion() reports a later version
PlatformChanges ==
    /\ \E M \in Majors, m \in Minors :
          /\ \/ Num(gate.Major) < Num(M)
             \/ Num(gate.Major) = Num(M) /\ Num(gate.Minor) < Num(m)
          /\ gate' = [gate EXCEPT !.Major = M, !.Minor = m]
    /\ UNCHANGED <<secret, created, call, cm, loaded, allocated, everHeld,
                   resolver, extSecrets, apiUp, render>>

InitGate ==
    /\ secret = NoSecret
    /\ created = 0
    /\ call = [p \in Procs |-> IdleCall]
    /\ cm = NoConfigMap
    /\ loaded = NotLoaded
    /\ allocated = <<>>
    /\ everHeld = {}
    /\ resolver = IdleResolver
    /\ extSecrets = {}
    /\ apiUp = TRUE
    /\ \E rbd \in BOOLEAN, fs \in BOOLEAN, flex \in BOOLEAN,
          ns \in {"", Namespace}, M \in Majors, m \in Minors :
          gate = [IdleGate EXCEPT !.EnableRBD = rbd, !.EnableCephFS = fs,
                                  !.EnableFlexDriver = flex,
                                  !.operatorNamespace = ns,
                                  !.Major = M, !.Minor = m]
    /\ render = IdleRender

NextGate ==
    \/ startDrivers
    \/ UpdateDrivers
    \/ PlatformChanges

SpecGate == InitGate /\ [][NextGate]_vars

(***************************************************************************)
(* Optional drivers: properties                                            *)
(***************************************************************************)
\* C15: once updateDrivers has disabled the drivers for the server's version, no
\* later startDrivers or updateDrivers enables either flag or starts the
\* drivers, whatever the server's version has become
C15_DisabledDriversStayDisabled ==
    [][gate.gated => /\ ~gate'.EnableRBD
                     /\ ~gate'.EnableCephFS
                     /\ gate'.driverStarts = gate.driverStarts]_vars

\* disabled on 1.12, evaluated again on 1.13
C15_Witness ==
    /\ gate.gated
    /\ gate.last.Minor = <<1, 2>>
    /\ gate.seen = << <<1>>, <<1, 3>> >>
    /\ ~gate.EnableRBD
    /\ ~gate.EnableCephFS
    /\ gate.driverStarts = 0

\* the version is below the minimum, as numbers
Older(M, m) ==
    \/ Num(M) < Num(KubeMinMajor)
    \/ Num(M) = Num(KubeMinMajor) /\ Num(m) < Num(KubeMinMinor)

\* C16: the comparison disables the drivers exactly when the server's version
\* is below the minimum, and the drivers are started only when it is not
C16_DisablesExactlyBelowMinimum ==
    gate.last.reached =>
        /\ gate.last.disabled <=> Older(gate.last.Major, gate.last.Minor)
        /\ gate.last.started => ~Older(gate.last.Major, gate.last.Minor)

\* C25: with the flag false updateDrivers changes nothing (no agent, no driver
\* flag); startDrivers with the flag false runs updateDrivers and leaves the
\* flag true exactly when that succeeded, so a failed one is retried; with the
\* flag true startDrivers returns without running updateDrivers, and the flag
\* never goes back to false
C25_StartGuardedByFlag ==
    [][ /\ (UpdateDrivers /\ ~gate.delayedDaemonsStarted) =>
              gate' = [gate EXCEPT !.ran = FALSE, !.err = ""]
        /\ (startDrivers /\ ~gate.delayedDaemonsStarted) =>
              /\ gate'.ran
              /\ gate'.delayedDaemonsStarted <=> (gate'.err = "")
        /\ (startDrivers /\ gate.delayedDaemonsStarted) =>
              gate' = [gate EXCEPT !.ran = FALSE, !.err = ""]
        /\ gate.delayedDaemonsStarted => gate'.delayedDaemonsStarted ]_vars

\* a first startDrivers failed at the server version, the next one started the
\* drivers, and a later one has returned at once
C25_Witness ==
    /\ gate.delayedDaemonsStarted
    /\ ~gate.ran
    /\ gate.err = ""
    /\ gate.evals = 2
    /\ gate.driverStarts = 1
    /\ ~gate.gated

(***************************************************************************)
(* Config generation: the default document, the merge, the files           *)
(***************************************************************************)
MaxMembers == 2

MaxRenders == 2

\* the members a cluster may have, by the key of ClusterInfo.Monitors
MemberKeys == {"node" \o ToString(i) : i \in 0..(MaxMembers - 1)}

IPOf(key) ==
    CHOOSE ip \in {"10.0.0." \o ToString(i + 1) : i \in 0..(MaxMembers - 1)} :
        \E i \in 0..(MaxMembers - 1) :
            key = "node" \o ToString(i) /\ ip = "10.0.0." \o ToString(i + 1)

MonNameOf(key) ==
    CHOOSE nm \in {IndexToName(i) : i \in 0..(MaxMembers - 1)} :
        \E i \in 0..(MaxMembers - 1) :
            key = "node" \o ToString(i) /\ nm = IndexToName(i)

\* the legacy and the modern port of a member
LegacyPort == "6789"
Msgr2Port  == "3300"

\* Monitors of the tests: "node0": {Name: "mon0", Endpoint: "10.0.0.1:6789"}
MonitorsOf(keys) ==
    [n \in keys |-> [Name |-> MonNameOf(n),
                     Endpoint |-> IPOf(n) \o ":" \o LegacyPort]]

\* an address taken to be the whole endpoint
GetIPFromEndpointWhole(endpoint) == endpoint

\* the address of an "ip:port" endpoint
GetIPFromEndpoint(endpoint) ==
    LET ips == {IPOf(n) : n \in MemberKeys}
        hit == {ip \in ips : endpoint = ip \o ":" \o LegacyPort}
    IN  IF hit = {} THEN "" ELSE CHOOSE ip \in hit : TRUE

\* strings.Join
RECURSIVE Join(_, _)
Join(seq, sep) ==
    IF seq = <<>> THEN ""
    ELSE IF Len(seq) = 1 THEN seq[1]
    ELSE seq[1] \o sep \o Join(Tail(seq), sep)

\* the orders in which a walk over the member mapping can visit its keys
Orders(keys) ==
    {o \in [1..Cardinality(keys) -> keys] : \A i, j \in DOMAIN o : o[i] = o[j] => i = j}

\* the dual-protocol address group of one member
AddressGroup(mon) ==
    LET ip == GetIPFromEndpoint(mon.Endpoint)
    IN  "[v2:" \o ip \o ":" \o Msgr2Port \o ",v1:" \o ip \o ":" \o LegacyPort \o "]"

\* QuorumMemberList: the names, space-joined
MonMembers(monitors, order) ==
    Join([i \in DOMAIN order |-> monitors[order[i]].Name], " ")

\* QuorumAddressDirectory: the groups, comma-joined
MonHost(monitors, order) ==
    Join([i \in DOMAIN order |-> AddressGroup(monitors[order[i]])], ",")

\* capnslog.INFO gives 0, capnslog.DEBUG gives 10
LogVerbosity(level) == IF level = "DEBUG" THEN "10" ELSE "0"

\* the address and subnet keys, when a network is configured
NetworkKeys(in) ==
    IF in.network
    THEN ("public addr" :> "10.1.1.1") @@ ("public network" :> "10.1.1.0/24")
         @@ ("cluster addr" :> "10.1.2.2") @@ ("cluster network" :> "10.1.2.0/24")
    ELSE [k \in {} |-> ""]

\* BuildDefault: the global section of the generated document
CreateDefaultCephConfig(in, order) ==
    "global" :>
        (("fsid" :> in.FSID)
         @@ ("mon initial members" :> MonMembers(in.Monitors, order))
         @@ ("mon host" :> MonHost(in.Monitors, order))
         @@ ("log verbosity" :> LogVerbosity(in.LogLevel))
         @@ NetworkKeys(in))

\* a merge in which the generated value wins
MergeDefaultsWin(doc, ov) ==
    [sec \in DOMAIN doc \cup DOMAIN ov |->
        IF sec \notin DOMAIN ov THEN doc[sec]
        ELSE IF sec \notin DOMAIN doc THEN ov[sec]
        ELSE doc[sec] @@ ov[sec]]

\* a merge that appends the override's value to the one already there
MergeAppending(doc, ov) ==
    [sec \in DOMAIN doc \cup DOMAIN ov |->
        IF sec \notin DOMAIN ov THEN doc[sec]
        ELSE IF sec \notin DOMAIN doc THEN ov[sec]
        ELSE [k \in DOMAIN doc[sec] \cup DOMAIN ov[sec] |->
                 IF k \notin DOMAIN ov[sec] THEN doc[sec][k]
                 ELSE IF k \notin DOMAIN doc[sec] THEN ov[sec][k]
                 ELSE doc[sec][k] \o " " \o ov[sec][k]]]

\* the override merged onto the document, key by key within each section
Merge(doc, ov) ==
    [sec \in DOMAIN doc \cup DOMAIN ov |->
        IF sec \notin DOMAIN ov THEN doc[sec]
        ELSE IF sec \notin DOMAIN doc THEN ov[sec]
        ELSE ov[sec] @@ doc[sec]]

\* <destinationDir>/<clusterName>.config
ConfigFilePath(dir, name) == dir \o "/" \o name \o ".config"

\* where the admin connection artifact goes
AdminFilePath(dir, name) == dir \o "/" \o name \o "/client.admin.keyring"

\* the admin connection artifact: the admin user's key
AdminDoc(in) == ("client.admin" :> ("key" :> in.AdminSecret))

\* GenerateConfigFile: the generated document, the override merged, written out
GenerateConfigFileOf(r, order, ok) ==
    LET def == CreateDefaultCephConfig(r.in, order)
        doc == Merge(def, r.in.override)
    IN  IF ~ok THEN [r EXCEPT !.err = "IOError"]
        ELSE [r EXCEPT !.n = IF @ < MaxRenders THEN @ + 1 ELSE @,
                       !.order = order,
                       !.default = def,
                       !.prev = r.main.doc,
                       !.main = [path |-> ConfigFilePath(r.in.ConfigDir, r.in.Name),
                                 doc |-> doc],
                       !.err = ""]

\* GenerateAdminConnectionConfig: the admin artifact, then the config file
GenerateAdminConnectionConfigOf(r, order, ok) ==
    LET r1 == GenerateConfigFileOf(r, order, ok)
    IN  IF r1.err # "" THEN r1
        ELSE [r1 EXCEPT !.admin = [path |-> AdminFilePath(r.in.ConfigDir, r.in.Name),
                                   doc |-> AdminDoc(r.in)]]

\* a connection config that puts the admin user's key into the config file
WriteConnectionConfigIntoMain(r, order, ok) ==
    LET r1 == GenerateAdminConnectionConfigOf(r, order, ok)
    IN  IF r1.err # "" THEN [r1 EXCEPT !.err = "WriteFailed"]
        ELSE [r1 EXCEPT !.main.doc = Merge(@, AdminDoc(r.in)),
                        !.admin = [path |-> r1.main.path, doc |-> AdminDoc(r.in)]]

\* lines 175-182
WriteConnectionConfigOf(r, order, ok) ==
    LET r1 == GenerateAdminConnectionConfigOf(r, order, ok)
    IN  IF r1.err # "" THEN [r1 EXCEPT !.err = "WriteFailed"] ELSE r1

GenerateConfigFile ==
    /\ \E order \in Orders(DOMAIN render.in.Monitors), ok \in BOOLEAN :
          render' = GenerateConfigFileOf(render, order, ok)
    /\ UNCHANGED <<secret, created, call, cm, loaded, allocated, everHeld,
                   resolver, extSecrets, apiUp, gate>>

WriteConnectionConfig ==
    /\ \E order \in Orders(DOMAIN render.in.Monitors), ok \in BOOLEAN :
          render' = WriteConnectionConfigOf(render, order, ok)
    /\ UNCHANGED <<secret, created, call, cm, loaded, allocated, everHeld,
                   resolver, extSecrets, apiUp, gate>>

\* the override documents an operator may supply; the first is no override
Overrides ==
    { EmptyDoc,
      "global" :> ("bluestore_min_alloc_size_hdd" :> "4096"),
      "global" :> ("fsid" :> "otherfsid"),
      "osd" :> ("osd_pool_default_size" :> "1"),
      ("global" :> ("mon host" :> "10.9.9.9")) @@ ("osd" :> ("osd_pool_default_size" :> "1")) }

InitRender ==
    /\ secret = NoSecret
    /\ created = 0
    /\ call = [p \in Procs |-> IdleCall]
    /\ cm = NoConfigMap
    /\ loaded = NotLoaded
    /\ allocated = <<>>
    /\ everHeld = {}
    /\ resolver = IdleResolver
    /\ extSecrets = {}
    /\ apiUp = TRUE
    /\ gate = IdleGate
    /\ \E keys \in SUBSET MemberKeys, level \in {"INFO", "DEBUG"}, net \in BOOLEAN,
          ov \in Overrides, admin \in {"adminsecret", "adminsecret2"} :
          render = [IdleRender EXCEPT
                       !.in = [FSID |-> "myfsid", Name |-> "foo-cluster",
                               MonitorSecret |-> "monsecret", AdminSecret |-> admin,
                               Monitors |-> MonitorsOf(keys), LogLevel |-> level,
                               network |-> net, override |-> ov,
                               ConfigDir |-> "/var/lib/rook"]]

NextRender ==
    \/ GenerateConfigFile
    \/ WriteConnectionConfig

SpecRender == InitRender /\ [][NextRender]_vars

(***************************************************************************)
(* Config generation: properties                                           *)
(***************************************************************************)
HasEntry(doc, sec, k) == sec \in DOMAIN doc /\ k \in DOMAIN doc[sec]

\* C17: in the generated file every key of the override has the override's
\* value, every key only the default document has keeps its value, and the
\* sections and keys are those of the two together
C17_OverrideWinsPerKey ==
    render.n >= 1 =>
        LET d  == render.default
            ov == render.in.override
            m  == render.main.doc
        IN  /\ DOMAIN m = DOMAIN d \cup DOMAIN ov
            /\ \A sec \in DOMAIN m :
                  DOMAIN m[sec] = (IF sec \in DOMAIN d THEN DOMAIN d[sec] ELSE {})
                                  \cup (IF sec \in DOMAIN ov THEN DOMAIN ov[sec] ELSE {})
            /\ \A sec \in DOMAIN m : \A k \in DOMAIN m[sec] :
                  m[sec][k] = IF HasEntry(ov, sec, k) THEN ov[sec][k] ELSE d[sec][k]

\* the case of TestGenerateConfigFile
C17_Witness ==
    /\ render.n >= 1
    /\ DOMAIN render.in.Monitors = {"node0"}
    /\ HasEntry(render.main.doc, "global", "bluestore_min_alloc_size_hdd")
    /\ render.main.doc["global"]["bluestore_min_alloc_size_hdd"] = "4096"
    /\ render.main.doc["global"]["fsid"] = "myfsid"

\* merging the override onto the generated file again changes nothing
MergeIdempotent ==
    render.n >= 1 => Merge(render.main.doc, render.in.override) = render.main.doc

\* the values the member list and the address directory can take
MemberOrderValues(k) ==
    {IF k = "mon host" THEN MonHost(render.in.Monitors, o)
                       ELSE MonMembers(render.in.Monitors, o) :
        o \in Orders(DOMAIN render.in.Monitors)}

\* two documents alike but for the order of the members in the two lists
SameUpToMemberOrder(a, b) ==
    /\ DOMAIN a = DOMAIN b
    /\ \A sec \in DOMAIN a :
          /\ DOMAIN a[sec] = DOMAIN b[sec]
          /\ \A k \in DOMAIN a[sec] :
                \/ a[sec][k] = b[sec][k]
                \/ /\ sec = "global"
                   /\ k \in {"mon host", "mon initial members"}
                   /\ a[sec][k] \in MemberOrderValues(k)
                   /\ b[sec][k] \in MemberOrderValues(k)

SecretValues == {"monsecret", "monsecret2", "adminsecret", "adminsecret2"}

\* the file generated from the same inputs but for the two keys
MainDocWith(monSecret, adminSecret) ==
    Merge(CreateDefaultCephConfig([render.in EXCEPT !.MonitorSecret = monSecret,
                                                   !.AdminSecret = adminSecret],
                                  render.order),
          render.in.override)

\* C19: the config file is the same whatever the two keys are and holds neither;
\* the admin key is in the admin artifact, at another path
C19_NoSecretInConfigFile ==
    render.n >= 1 =>
        /\ \A ms \in SecretValues, as \in SecretValues :
              render.main.doc = MainDocWith(ms, as)
        /\ \A sec \in DOMAIN render.main.doc : \A k \in DOMAIN render.main.doc[sec] :
              render.main.doc[sec][k] \notin {render.in.MonitorSecret,
                                             render.in.AdminSecret}
        /\ render.admin # NoFile =>
              /\ render.admin.path # render.main.path
              /\ render.admin.doc["client.admin"]["key"] = render.in.AdminSecret

C19_Witness ==
    /\ render.n >= 1
    /\ render.admin.doc = ("client.admin" :> ("key" :> "adminsecret2"))
    /\ render.main.path = "/var/lib/rook/foo-cluster.config"
    /\ render.main.doc["global"]["fsid"] = "myfsid"
    /\ Cardinality(DOMAIN render.in.Monitors) = 2

\* the group a member's address gives, written out
ExpectedGroup(key) ==
    "[v2:" \o IPOf(key) \o ":3300,v1:" \o IPOf(key) \o ":6789]"

\* C20: the default document's address directory is the comma-joined groups
\* [v2:ip:3300,v1:ip:6789] of the members, each once, in some order, and its
\* member list is the members' names, each once, in some order
C20_OneGroupPerMember ==
    render.n >= 1 =>
        LET keys == DOMAIN render.in.Monitors
            g    == render.default["global"]
        IN  /\ \E o \in Orders(keys) :
                  g["mon host"] = Join([i \in DOMAIN o |-> ExpectedGroup(o[i])], ",")
            /\ \E o \in Orders(keys) :
                  g["mon initial members"] = Join([i \in DOMAIN o |-> MonNameOf(o[i])], " ")

\* mon0 and mon1 of TestCreateDefaultCephConfig, mon1 first
C20_Witness ==
    /\ render.n >= 1
    /\ render.default["global"]["mon host"] =
          "[v2:10.0.0.2:3300,v1:10.0.0.2:6789],[v2:10.0.0.1:3300,v1:10.0.0.1:6789]"
    /\ render.default["global"]["mon initial members"] = "mon1 mon0"
    /\ render.default["global"]["log verbosity"] = "10"

====
